---- MODULE Spec2Model ----
(***************************************************************************)
(* Chunked upload pipeline of the acfun uploader.  Two revisions of the    *)
(* program are in the repository and both are modelled; the variable impl  *)
(* says which one is running:                                              *)
(*   "main" = src/main.go          (shared read buffer, workers requeue a  *)
(*                                  failed fragment by a blocking send)    *)
(*   "part" = src/unnamed/part_000 (one buffer per fragment, requeue from  *)
(*                                  a separate goroutine, resume request,  *)
(*                                  three finalize steps)                  *)
(*                                                                         *)
(* A worker's step Attempt copies item.content into the request and gets   *)
(* the answer of the round trip in one step.  In main.go that copy races   *)
(* with the reader's next file.Read into the same buffer; the model lets   *)
(* the copy fall before or after the read (not in the middle of it), which *)
(* are two of the outcomes the race can produce.                           *)
(***************************************************************************)
EXTENDS Integers, Sequences, FiniteSets, TLC

\* ---------------------------------------------------------------- bounds
NumFiles    == 2
MaxFileLen  == 2
MaxPartSize == 3
MaxParallel == 2
MaxFail     == 1

Impls       == {"main", "part"}
ZeroByte    == 0
FileIds     == 1..NumFiles
WorkerIds   == 1..MaxParallel
None        == [count |-> -2, buf |-> -1, len |-> 0]

\* The files of the batch.  No step of the program looks at a byte's value,
\* so the byte at offset i-1 is named i: any byte that ends up in the wrong
\* place, twice or not at all shows in the content.
FileOfSize(n) == [i \in 1..n |-> i]

FileContents == {FileOfSize(n) : n \in 0..MaxFileLen}

EmptyFn == [x \in {} |-> x]

\* A multiset of items as a function item -> number of copies.
BagAdd(b, x) ==
    IF x \in DOMAIN b THEN [b EXCEPT ![x] = @ + 1] ELSE b @@ (x :> 1)

\* One copy of x leaves the multiset: a requeue goroutine's send is received.
BagKeep(b, x) == b

BagRemove(b, x) ==
    IF b[x] = 1 THEN [y \in DOMAIN b \ {x} |-> b[y]]
    ELSE [b EXCEPT ![x] = @ - 1]

Min(a, b) == IF a < b THEN a ELSE b

Zeros(n) == [i \in 1..n |-> ZeroByte]

VARIABLES
    impl,       \* which revision of the program runs
    fileIdx,    \* position of main's "for _, v := range files"
    mainPc,     \* position of the orchestrator inside the loop body
    data,       \* content of the file being processed
    config,     \* *UploadConfigResp returned by getUploadConfig
    offset,     \* read cursor of the open file
    part,       \* main's fragment counter
    heap,       \* byte buffers made by main, by buffer id
    wg,         \* sync.WaitGroup counter of the file being processed
    sendItem,   \* the *UploadPart main is sending on ch
    workers,    \* workers[f][w]: uploader goroutine w started for file f
    requeue,    \* requeue[f]: items held by "go func() { *ch <- item }()"
    closed,     \* closed[f]: close(ch) was executed for file f's channel
    fails,      \* failed upload attempts so far for this file
    frags,      \* per fragment id: what was enqueued, sent and acknowledged
    progress,   \* sum of bar.Add increments of this file
    readErr,    \* the reader loop ended on a read error other than EOF
    finLog,     \* finalize requests issued for this file, with outcome
    finStarted, \* number of finishUpload calls for this file
    outcome     \* outcome[f]: how file f ended

vars == <<impl, fileIdx, mainPc, data, config, offset, part, heap, wg,
          sendItem, workers, requeue, closed, fails, frags, progress,
          readErr, finLog, finStarted, outcome>>

\* ------------------------------------------------------------ data types
NoConfig == [result |-> "none", partSize |-> 0, parallel |-> 0]

\* A well-formed getKSCloudToken answer: result code class, partSize, parallel.
Configs == [result : {"success", "failure"},
            partSize : 0..MaxPartSize,
            parallel : 0..MaxParallel]

\* What one upload round trip can return to the worker.
UploadOutcomes == {"transportErr", "readBodyErr", "decodeErr",
                   "badResult", "sizeMismatch", "ok"}

Idle     == [pc |-> "recv", item |-> None]
NoWorker == [pc |-> "none", item |-> None]

Terminal == {"Done", "FailedInfo", "FailedNegotiate", "FailedResume",
             "FailedOpen", "FailedFinalize"}

\* Process still running: main has neither returned nor panicked.
Alive == mainPc \notin {"exit", "panic"}

\* make([]byte, PartSize) in main.go, make([]byte, PartSize-1) in part_000.
BufLenWhole == config.partSize

BufLen == IF impl = "main" THEN config.partSize ELSE config.partSize - 1

\* First value of the fragment counter: int64(0) / int64(-1), before part++.
PartInitSwapped == IF impl = "main" THEN -1 ELSE 0

PartInit == IF impl = "main" THEN 0 ELSE -1

\* The buffer a read fills: the one buf of main.go, a fresh one per iteration
\* in part_000 (named here by the iteration's counter value).
BufId(p) == IF impl = "main" THEN 0 ELSE p

\* len(content) of the UploadPart built after reading nr bytes:
\* "content: buf" in main.go, "content: buf[:nr]" in part_000.
ItemLen(nr) == IF impl = "main" THEN BufLen ELSE nr

\* item.content as a worker sees it now: a slice of the buffer it points to.
Content(item) == SubSeq(heap[item.buf], 1, item.len)

\* The start of the Content-Range a part_000 worker declares for an item:
\* "item.count * int64(partSize)", the worker's partSize being PartSize-1.
RangeStart(item) == item.count * BufLen

\* The worker's decision that an attempt succeeded (bar.Add, wg.Done).
Accepts(o) ==
    IF impl = "main" THEN o \notin {"transportErr", "readBodyErr"}
    ELSE o = "ok"

\* Number of wg.Done() calls a worker makes for an attempt that returned o.
DoneAlways(o) == 1

DoneCalls(o) == IF Accepts(o) THEN 1 ELSE 0

\* wg.Wait() returns when the counter is zero.
WaitSkipped == TRUE

WaitReturns == wg = 0

\* A failed attempt is sent back by the worker itself (main.go) instead of by
\* a goroutine of its own (part_000).
RequeueAlwaysInline == TRUE

RequeueInline == impl = "main"

\* "if err != nil { return err }" after a finalize request.
StepNeverAborts(ok) == FALSE

StepAborts(ok) == ~ok

\* The finalize requests, in the order finishUpload issues them.
FinSteps ==
    IF impl = "main" THEN <<"uploadFinish", "createVideo">>
    ELSE <<"uploadComplete", "createVideo", "uploadFinish">>

FinPcs == {"fin1", "fin2", "fin3"}
FinPos == [fin1 |-> 1, fin2 |-> 2, fin3 |-> 3]
FinPc  == <<"fin1", "fin2", "fin3">>

\* ----------------------------------------------------------------- Init
Init ==
    /\ impl \in Impls
    /\ fileIdx = 1
    /\ mainPc = "info"
    /\ data = <<>>
    /\ config = NoConfig
    /\ offset = 0
    /\ part = 0
    /\ heap = EmptyFn
    /\ wg = 0
    /\ sendItem = None
    /\ workers = [f \in FileIds |-> [w \in WorkerIds |-> NoWorker]]
    /\ requeue = [f \in FileIds |-> EmptyFn]
    /\ closed = [f \in FileIds |-> FALSE]
    /\ fails = 0
    /\ frags = EmptyFn
    /\ progress = 0
    /\ readErr = FALSE
    /\ finLog = <<>>
    /\ finStarted = 0
    /\ outcome = [f \in FileIds |-> "Idle"]

\* "continue" or the end of the loop body: file fileIdx ends with outcome o
\* and the range loop moves on.  The locals of the iteration keep their last
\* values here until the next iteration starts (StartFile).
NextFile(o) ==
    /\ outcome' = [outcome EXCEPT ![fileIdx] = o]
    /\ fileIdx' = fileIdx + 1
    /\ mainPc' = IF fileIdx = NumFiles THEN "exit" ELSE "info"

perFile == <<data, config, offset, part, heap, wg, sendItem, fails, frags,
             progress, readErr, finLog, finStarted>>
pool == <<workers, requeue, closed>>

\* A new iteration of the range loop: nothing of the previous file is left.
StartFile ==
    /\ config' = NoConfig
    /\ offset' = 0
    /\ part' = 0
    /\ heap' = EmptyFn
    /\ wg' = 0
    /\ sendItem' = None
    /\ fails' = 0
    /\ frags' = EmptyFn
    /\ progress' = 0
    /\ readErr' = FALSE
    /\ finLog' = <<>>
    /\ finStarted' = 0

\* ------------------------------------------------------- the orchestrator
GetFileInfo ==
    /\ mainPc = "info"
    /\ StartFile
    /\ \/ /\ NextFile("FailedInfo")
          /\ data' = <<>>
       \/ /\ data' \in FileContents
          /\ mainPc' = "config"
          /\ UNCHANGED <<fileIdx, outcome>>
    /\ UNCHANGED <<impl, pool>>

GetUploadConfig ==
    /\ mainPc = "config"
    /\ \/ /\ NextFile("FailedNegotiate")
          /\ UNCHANGED config
       \/ /\ config' \in Configs
          /\ mainPc' = IF impl = "part" THEN "resume" ELSE "open"
          /\ UNCHANGED <<fileIdx, outcome>>
    /\ UNCHANGED <<impl, data, offset, part, heap, wg, sendItem, pool, fails,
                   frags, progress, readErr, finLog, finStarted>>

UploadResume ==
    /\ mainPc = "resume"
    /\ \/ NextFile("FailedResume")
       \/ /\ mainPc' = "open"
          /\ UNCHANGED <<fileIdx, outcome>>
    /\ UNCHANGED <<impl, perFile, pool>>

OpenFile ==
    /\ mainPc = "open"
    /\ \/ NextFile("FailedOpen")
       \/ /\ mainPc' = "spawn"
          /\ UNCHANGED <<fileIdx, outcome>>
    /\ UNCHANGED <<impl, perFile, pool>>

\* wg, ch, "go uploader(...)" config.Config.Parallel times, and in main.go
\* the one read buffer; the fragment counter is initialised.
StartWorkers ==
    /\ mainPc = "spawn"
    /\ workers' = [workers EXCEPT ![fileIdx] =
                     [w \in WorkerIds |->
                        IF w <= config.parallel THEN Idle ELSE NoWorker]]
    /\ heap' = IF impl = "main" THEN (0 :> Zeros(BufLen)) ELSE EmptyFn
    /\ part' = PartInit
    /\ wg' = 0
    /\ mainPc' = "read"
    /\ UNCHANGED <<impl, fileIdx, data, config, offset, sendItem, requeue,
                   closed, fails, frags, progress, readErr, finLog,
                   finStarted, outcome>>

\* What the reader records about a fragment when it is enqueued.
NewFrag(off, nr, item) ==
    [off |-> off, n |-> nr, item |-> item, attempts |-> 0,
     first |-> <<>>, last |-> <<>>, done |-> 0, acks |-> 0]

\* buf with its first nr bytes overwritten by the file's bytes at the cursor.
Filled(b, nr) ==
    [i \in 1..Len(b) |-> IF i <= nr THEN data[offset + i] ELSE b[i]]

\* The loop exit "if nr <= 0 || err != nil { break }".
StopReading(err) ==
    /\ readErr' = err
    /\ mainPc' = "wait"
    /\ UNCHANGED <<offset, heap, wg, sendItem, frags>>

\* One iteration of the reader loop up to the send: part++, (part_000: a new
\* buffer,) file.Read, and for nr > 0 wg.Add(1) and the UploadPart to send.
ReadFragment ==
    /\ mainPc = "read"
    /\ part' = part + 1
    /\ IF BufLen < 0
       THEN \* make([]byte, -1) panics
            /\ mainPc' = "panic"
            /\ UNCHANGED <<offset, heap, wg, sendItem, frags, readErr>>
       ELSE \/ \* the read fails (a read into an empty buffer returns at once)
               /\ BufLen > 0
               /\ StopReading(TRUE)
            \/ \* end of file, or a zero-length buffer: (0, io.EOF) / (0, nil)
               /\ (offset = Len(data) \/ BufLen = 0)
               /\ StopReading(FALSE)
            \/ \* nr bytes are read, possibly fewer than the buffer holds
               \E nr \in 1..Min(BufLen, Len(data) - offset) :
                 LET id   == BufId(part')
                     old  == IF impl = "main" THEN heap[id] ELSE Zeros(BufLen)
                     item == [count |-> part', buf |-> id,
                              len |-> ItemLen(nr)]
                 IN /\ heap' = IF id \in DOMAIN heap
                               THEN [heap EXCEPT ![id] = Filled(old, nr)]
                               ELSE heap @@ (id :> Filled(old, nr))
                    /\ offset' = offset + nr
                    /\ wg' = wg + 1
                    /\ sendItem' = item
                    /\ frags' = frags @@ (part' :> NewFrag(offset, nr, item))
                    /\ mainPc' = "send"
                    /\ UNCHANGED readErr
    /\ UNCHANGED <<impl, fileIdx, data, config, pool, fails, progress,
                   finLog, finStarted, outcome>>

\* "ch <- &UploadPart{...}" meets a worker's "range *ch".
MainSend(w) ==
    /\ mainPc = "send"
    /\ ~closed[fileIdx]
    /\ workers[fileIdx][w].pc = "recv"
    /\ workers' = [workers EXCEPT ![fileIdx][w] =
                     [pc |-> "upload", item |-> sendItem]]
    /\ sendItem' = None
    /\ mainPc' = "read"
    /\ UNCHANGED <<impl, fileIdx, data, config, offset, part, heap, wg,
                   requeue, closed, fails, frags, progress, readErr, finLog,
                   finStarted, outcome>>

\* wg.Wait() returns.
WaitDone ==
    /\ mainPc = "wait"
    /\ WaitReturns
    /\ mainPc' = "close"
    /\ UNCHANGED <<impl, fileIdx, perFile, pool, outcome>>

\* close(ch); file.Close(); bar.Finish().
CloseQueue ==
    /\ mainPc = "close"
    /\ closed' = [closed EXCEPT ![fileIdx] = TRUE]
    /\ mainPc' = "fin1"
    /\ UNCHANGED <<impl, fileIdx, perFile, workers, requeue, outcome>>

\* One request of finishUpload and what follows from its result.
FinishStep ==
    /\ mainPc \in FinPcs
    /\ LET k == FinPos[mainPc] IN
       /\ finStarted' = IF k = 1 THEN finStarted + 1 ELSE finStarted
       /\ \E ok \in BOOLEAN :
            /\ finLog' = Append(finLog, [step |-> FinSteps[k], ok |-> ok,
                                         count |-> part])
            /\ IF StepAborts(ok) THEN NextFile("FailedFinalize")
               ELSE IF k = Len(FinSteps) THEN NextFile("Done")
               ELSE /\ mainPc' = FinPc[k + 1]
                    /\ UNCHANGED <<fileIdx, outcome>>
    /\ UNCHANGED <<impl, data, config, offset, part, heap, wg, sendItem,
                   fails, frags, progress, readErr, pool>>

\* ------------------------------------------------------------ the workers
\* The body of uploader's loop for the item worker w holds: the content is
\* copied into the request, the round trip returns o, and the worker either
\* counts the fragment as done or hands it back for a retry.
Attempt(w, o) ==
    /\ Alive
    /\ workers[fileIdx][w].pc = "upload"
    /\ LET item == workers[fileIdx][w].item
           c    == Content(item)
           fr   == frags[item.count]
       IN /\ frags' = [frags EXCEPT ![item.count] =
                [fr EXCEPT !.attempts = @ + 1,
                           !.first = IF fr.attempts = 0 THEN c ELSE @,
                           !.last = c,
                           !.done = @ + DoneCalls(o),
                           !.acks = IF o = "ok" THEN @ + 1 ELSE @]]
          /\ wg' = wg - DoneCalls(o)
          /\ IF Accepts(o)
             THEN /\ progress' = progress + item.len
                  /\ workers' = [workers EXCEPT ![fileIdx][w] = Idle]
                  /\ UNCHANGED <<requeue, fails>>
             ELSE /\ fails < MaxFail
                  /\ fails' = fails + 1
                  /\ IF RequeueInline
                     THEN \* "*ch <- item" in the worker itself
                          /\ workers' = [workers EXCEPT ![fileIdx][w] =
                                           [pc |-> "resend", item |-> item]]
                          /\ UNCHANGED requeue
                     ELSE \* "go func() { *ch <- item }()" and "continue"
                          /\ requeue' = [requeue EXCEPT ![fileIdx] =
                                           BagAdd(@, item)]
                          /\ workers' = [workers EXCEPT ![fileIdx][w] = Idle]
                  /\ UNCHANGED progress
    /\ UNCHANGED <<impl, fileIdx, mainPc, data, config, offset, part, heap,
                   sendItem, closed, readErr, finLog, finStarted, outcome>>

\* A requeue goroutine's send meets a worker's receive (part_000).
RequeueSend(f, w, item) ==
    /\ Alive
    /\ item \in DOMAIN requeue[f]
    /\ ~closed[f]
    /\ workers[f][w].pc = "recv"
    /\ requeue' = [requeue EXCEPT ![f] = BagRemove(@, item)]
    /\ workers' = [workers EXCEPT ![f][w] = [pc |-> "upload", item |-> item]]
    /\ UNCHANGED <<impl, fileIdx, mainPc, perFile, closed, outcome>>

\* A worker's own requeue send meets another worker's receive (main.go).
WorkerResend(f, w, r) ==
    /\ Alive
    /\ w # r
    /\ workers[f][w].pc = "resend"
    /\ ~closed[f]
    /\ workers[f][r].pc = "recv"
    /\ workers' = [workers EXCEPT
                     ![f][r] = [pc |-> "upload", item |-> workers[f][w].item],
                     ![f][w] = Idle]
    /\ UNCHANGED <<impl, fileIdx, mainPc, perFile, requeue, closed, outcome>>

\* "for item := range *ch" ends: the channel is closed (and empty).
WorkerExit(f, w) ==
    /\ Alive
    /\ workers[f][w].pc = "recv"
    /\ closed[f]
    /\ workers' = [workers EXCEPT ![f][w] = [pc |-> "exited", item |-> None]]
    /\ UNCHANGED <<impl, fileIdx, mainPc, perFile, requeue, closed, outcome>>

\* ----------------------------------------------------- the specification
MainStep ==
    \/ GetFileInfo
    \/ GetUploadConfig
    \/ UploadResume
    \/ OpenFile
    \/ StartWorkers
    \/ ReadFragment
    \/ WaitDone
    \/ CloseQueue
    \/ FinishStep

Next ==
    \/ MainStep
    \/ \E w \in WorkerIds : MainSend(w)
    \/ \E w \in WorkerIds, o \in UploadOutcomes : Attempt(w, o)
    \/ \E f \in FileIds, w \in WorkerIds :
          \E item \in DOMAIN requeue[f] : RequeueSend(f, w, item)
    \/ \E f \in FileIds, w, r \in WorkerIds : WorkerResend(f, w, r)
    \/ \E f \in FileIds, w \in WorkerIds : WorkerExit(f, w)

Spec == Init /\ [][Next]_vars

\* Liveness: the Go scheduler runs every goroutine that can take a step, and
\* a receive that some sender can always meet is eventually met.
Receive(f, w) ==
    \/ (f = fileIdx /\ MainSend(w))
    \/ \E item \in DOMAIN requeue[f] : RequeueSend(f, w, item)
    \/ \E r \in WorkerIds : WorkerResend(f, r, w)

Fairness ==
    /\ WF_vars(MainStep)
    /\ \A w \in WorkerIds : WF_vars(\E o \in UploadOutcomes : Attempt(w, o))
    /\ \A f \in FileIds, w \in WorkerIds : WF_vars(Receive(f, w))
    /\ \A f \in FileIds, w \in WorkerIds : WF_vars(WorkerExit(f, w))

FairSpec == Init /\ [][Next]_vars /\ Fairness

TypeOK ==
    /\ impl \in Impls
    /\ fileIdx \in 1..NumFiles + 1
    /\ wg >= 0
    /\ offset \in 0..Len(data)
    /\ fails \in 0..MaxFail

\* ------------------------------------------------------------ the claims
\* Fragments the reader has enqueued for the file in progress.
Enqueued == DOMAIN frags

AllDone == \A c \in Enqueued : frags[c].done >= 1

Undone == {c \in Enqueued : frags[c].done = 0}

\* The reader loop is over: nothing more will be enqueued for this file.
ProductionDone == mainPc \notin {"spawn", "read", "send"} /\ sendItem = None

PartPipeline ==
    /\ impl = "part"
    /\ config.parallel >= 1
    /\ BufLen >= 0

\* Some send on the queue of the file in progress is waiting for a receiver.
SendPending ==
    \/ mainPc = "send"
    \/ (fileIdx \in FileIds /\ requeue[fileIdx] # EmptyFn)

HeldItems ==
    {workers[fileIdx][w].item :
        w \in {v \in WorkerIds : workers[fileIdx][v].item # None}}
    \cup DOMAIN requeue[fileIdx]

\* C4: every attempt of a fragment, after any number of failed attempts,
\* carries the sequence index and the bytes of its first attempt.
C4_RetrySameContent ==
    /\ \A c \in Enqueued :
          frags[c].attempts >= 1 => frags[c].last = frags[c].first
    /\ fileIdx \in FileIds =>
          \A it \in HeldItems : it.count \in Enqueued /\ frags[it.count].item = it

\* The iteration of the range loop for file fileIdx - 1 has just ended and
\* the locals still show how.
FileEnded == mainPc \in {"info", "exit"} /\ fileIdx > 1

CommitCalls == {i \in 1..Len(finLog) : finLog[i].step = "createVideo"}

\* C5: the finalize handshake of a file is started at most once and only with
\* every fragment acknowledged; its requests are issued in the order of
\* finishUpload, each only after the one before returned without error; the
\* first failing request ends the file as failed at finalize; createVideo is
\* issued at most once; a file that ends Done had every request succeed.
C5_FinalizeHandshake ==
    /\ finStarted = IF finLog = <<>> THEN 0 ELSE 1
    /\ finStarted = 1 => (AllDone /\ wg = 0)
    /\ Len(finLog) <= Len(FinSteps)
    /\ \A i \in 1..Len(finLog) :
          /\ finLog[i].step = FinSteps[i]
          /\ i < Len(finLog) => finLog[i].ok
    /\ Cardinality(CommitCalls) <= 1
    /\ mainPc \in FinPcs => Len(finLog) = FinPos[mainPc] - 1
    /\ (finLog # <<>> /\ ~finLog[Len(finLog)].ok) =>
          (FileEnded /\ outcome[fileIdx - 1] = "FailedFinalize")
    /\ FileEnded =>
          /\ outcome[fileIdx - 1] = "Done" =>
                (Len(finLog) = Len(FinSteps) /\ finLog[Len(finLog)].ok)
          /\ outcome[fileIdx - 1] = "FailedFinalize" =>
                (finLog # <<>> /\ ~finLog[Len(finLog)].ok)
          /\ outcome[fileIdx - 1] \notin {"Done", "FailedFinalize"} =>
                finLog = <<>>

\* createVideo failed after the completion request succeeded.
C5_Witness ==
    /\ FileEnded
    /\ outcome[fileIdx - 1] = "FailedFinalize"
    /\ Len(finLog) = 2
    /\ finLog[1].ok
    /\ Enqueued # {}

\* C6: after a negotiation answer that is not a success, nothing is read from
\* the file, no worker is started, no finalize request is made and the file
\* ends as failed at negotiation.
C6_NegotiateFailureStops ==
    config.result = "failure" =>
        /\ mainPc \notin {"read", "send"}
        /\ offset = 0
        /\ Enqueued = {}
        /\ finStarted = 0
        /\ fileIdx \in FileIds =>
              \A w \in WorkerIds : workers[fileIdx][w] = NoWorker
        /\ FileEnded => outcome[fileIdx - 1] = "FailedNegotiate"

\* C7: a file whose read failed for a reason other than end-of-file gets no
\* finalize request.
C7_ReadErrorNoFinalize ==
    readErr => (finStarted = 0 /\ finLog = <<>>)

\* C8 as stated: when file i+1 is negotiated, file i has ended and none of
\* its workers or requeue goroutines is still running.
C8_Original ==
    (mainPc = "config") =>
        \A j \in FileIds : j < fileIdx =>
            /\ outcome[j] \in Terminal
            /\ requeue[j] = EmptyFn
            /\ \A w \in WorkerIds : workers[j][w].pc \in {"none", "exited"}

\* C8 amended: files run one after the other, and once file i has ended none
\* of its workers or requeue goroutines holds a fragment or can issue an
\* upload: its queue is closed and each worker has exited or is about to
\* leave its receive loop.  No worker exists for a file not yet started.
C8_SequentialFiles ==
    \A j \in FileIds :
        /\ j < fileIdx =>
              /\ outcome[j] \in Terminal
              /\ requeue[j] = EmptyFn
              /\ \A w \in WorkerIds :
                    /\ workers[j][w].pc \in {"none", "recv", "exited"}
                    /\ workers[j][w].item = None
                    /\ workers[j][w].pc = "recv" => closed[j]
        /\ j >= fileIdx => outcome[j] = "Idle"
        /\ j > fileIdx =>
              /\ requeue[j] = EmptyFn
              /\ ~closed[j]
              /\ \A w \in WorkerIds : workers[j][w] = NoWorker

\* The next file is negotiated while a worker of the previous file has not
\* yet left its receive loop.
C8_Witness ==
    /\ mainPc = "config"
    /\ fileIdx > 1
    /\ outcome[fileIdx - 1] = "Done"
    /\ \E w \in WorkerIds : workers[fileIdx - 1][w].pc = "recv"

\* C9: whatever happens to file i, the orchestrator goes on to file i+1.
C9_NextFileStarts ==
    \A i \in FileIds : (fileIdx = i) ~> (fileIdx = i + 1)

RECURSIVE SetMin(_)
SetMin(S) ==
    LET x == CHOOSE y \in S : TRUE
    IN IF S = {x} THEN x ELSE Min(x, SetMin(S \ {x}))

\* The bytes sent for the fragments in S, in sequence-index order.
RECURSIVE Uploaded(_)
Uploaded(S) ==
    IF S = {} THEN <<>>
    ELSE frags[SetMin(S)].last \o Uploaded(S \ {SetMin(S)})

\* C10: for a fragment size of at least one byte, when the reader reached
\* end-of-file and finalize begins, the bytes handed to the upload calls, in
\* sequence-index order, are the file.
C10_ConcatIsFile ==
    (mainPc = "fin1" /\ ~readErr /\ BufLen >= 1) => Uploaded(Enqueued) = data

\* C11: a worker counts a fragment as done only for an attempt the remote
\* answered with the positive result code and the fragment's byte length, so
\* a fragment is never counted done more often than it was so answered.
C11_DoneOnlyOnAck ==
    \A c \in Enqueued : frags[c].done <= frags[c].acks

RECURSIVE SumOver(_, _)
SumOver(f, S) ==
    IF S = {} THEN 0
    ELSE LET x == CHOOSE y \in S : TRUE IN f[x] + SumOver(f, S \ {x})

\* C12: the progress reporter gets one non-negative increment per fragment
\* counted done, and once the reader has reached end-of-file (buffer of at
\* least one byte) and the counter is back at zero the increments add up to
\* the file's size.
C12_ProgressIsFileSize ==
    /\ progress >= 0
    /\ progress = SumOver([c \in Enqueued |->
                             frags[c].done * frags[c].item.len], Enqueued)
    /\ (mainPc \in {"wait", "close"} \cup FinPcs /\ wg = 0 /\ ~readErr
          /\ BufLen >= 1) => progress = Len(data)

\* The file whose fragments the per-file variables describe.
Cur == IF FileEnded THEN fileIdx - 1 ELSE fileIdx

\* Number of parties holding fragment c: the reader's pending send, requeue
\* sends in flight, workers uploading or resending it.
Holders(c) ==
    (IF sendItem.count = c THEN 1 ELSE 0)
    + Cardinality({w \in WorkerIds : workers[Cur][w].item.count = c})
    + SumOver(requeue[Cur],
              {it \in DOMAIN requeue[Cur] : it.count = c})

FailedAttempt(c) ==
    /\ c \in DOMAIN frags'
    /\ frags'[c].attempts = frags[c].attempts + 1
    /\ frags'[c].acks = frags[c].acks

\* C14: a failed upload attempt changes nothing but the queue: the fragment
\* is held for a retry again, and the completion counter, the progress total,
\* the orchestrator's position and the files' outcomes stay as they were.
C14_FailedAttemptFrame ==
    [][\A c \in Enqueued :
          FailedAttempt(c) =>
             /\ wg' = wg
             /\ progress' = progress
             /\ outcome' = outcome
             /\ mainPc' = mainPc
             /\ frags'[c].done = frags[c].done]_vars

\* The bytes of the buffers that fragments not yet counted done point to.
LiveBuffers == {frags[c].item.buf : c \in Undone}

\* C15: from the hand-off of a fragment to the queue until it is counted
\* done, nobody writes its byte buffer: no step changes a buffer that a
\* fragment not yet done points to.
C15_NoWriteWhileInFlight ==
    [][\A b \in LiveBuffers : b \in DOMAIN heap' => heap'[b] = heap[b]]_vars

CeilDiv(a, b) == (a + b - 1) \div b

\* The reader loop of the file in progress has ended at end-of-file.
ReadToEnd == mainPc \in {"wait", "close"} \cup FinPcs /\ ~readErr

\* Every read took all the buffer could hold of what was left of the file.
FullReads ==
    \A c \in Enqueued :
        frags[c].n = Min(Len(heap[frags[c].item.buf]), Len(data) - frags[c].off)

\* The fragments in production order: the k-th enqueued one.
Nth(k) == frags[PartInit + k]

\* Fragmenting B bytes by S: ceil(B / S) fragments whose sizes, one per
\* fragment in production order, are S except the last, which is the rest.
Fragmented(S, size) ==
    LET B == Len(data)
        N == CeilDiv(B, S)
    IN /\ Cardinality(Enqueued) = N
       /\ \A k \in 1..N :
             /\ PartInit + k \in Enqueued
             /\ size[k] = IF k < N THEN S ELSE B - S * (N - 1)

ReadSize == IF impl = "main" THEN config.partSize ELSE config.partSize - 1

C17_IndexAndRange ==
    /\ Enqueued = 0..(Cardinality(Enqueued) - 1)
    /\ \A c, d \in Enqueued : c < d => frags[c].off < frags[d].off
    /\ impl = "part" =>
          \A c \in Enqueued : RangeStart(frags[c].item) = frags[c].off

\* The workers started for the file in progress.
Started == {w \in WorkerIds : workers[fileIdx][w].pc # "none"}

\* C18: in main.go, for every concurrency level >= 1, the workers of the file
\* being uploaded are never all blocked in their own requeue send.
C18_NotAllBlocked ==
    (impl = "main" /\ mainPc \in {"read", "send", "wait"}
       /\ config.parallel >= 1) =>
        \E w \in Started : workers[fileIdx][w].pc # "resend"

\* No send on file f's queue is pending or can still be started: the
\* reader holds no item for it, no requeue goroutine exists, and each of its
\* workers is idle in its receive or has left the loop.
NoSender(f) ==
    /\ f = Cur => sendItem = None
    /\ requeue[f] = EmptyFn
    /\ \A w \in WorkerIds :
          /\ workers[f][w].pc \in {"none", "recv", "exited"}
          /\ workers[f][w].item = None

AllExited(f) == \A w \in WorkerIds : workers[f][w].pc \in {"none", "exited"}

\* C19 as stated: from the close of a file's queue on there is no sender on
\* it, and after the close every worker started for the file terminates.
C19_Original ==
    /\ [](\A f \in FileIds : closed[f] => NoSender(f))
    /\ \A f \in FileIds : closed[f] ~> AllExited(f)

\* C19: from the close of a file's queue on no original send and no requeue
\* send on it is pending and none can be started, so no send on a closed
\* queue occurs; each worker started for the file has left its receive loop
\* or is idle in it, where its only step is to leave (it terminates if it
\* runs again before the process ends).
C19_ClosedQueueQuiet ==
    \A f \in FileIds : closed[f] => NoSender(f)

C19_Witness ==
    /\ impl = "part"
    /\ closed[Cur]
    /\ fails >= 1
    /\ \E w, r \in WorkerIds :
          /\ workers[Cur][w].pc = "exited"
          /\ workers[Cur][r].pc = "recv"

SetMax(S) == CHOOSE x \in S : \A y \in S : y <= x

\* Fragments the remote has acknowledged at least once.
Acked == {c \in Enqueued : frags[c].acks >= 1}

\* C20: in part_000 the fragment count sent with the completion request is
\* the number of fragments enqueued for the file, one more than the largest
\* index uploaded, and 0 exactly when no fragment was produced.
C20_FragmentCount ==
    (impl = "part" /\ finLog # <<>>) =>
        LET n == finLog[1].count
        IN /\ finLog[1].step = "uploadComplete"
           /\ n = Cardinality(Enqueued)
           /\ Acked # {} => n = SetMax(Acked) + 1
           /\ n = 0 <=> Enqueued = {}

C20_Witness ==
    /\ impl = "part"
    /\ finLog # <<>>
    /\ finLog[1].count = 2
    /\ Acked = {0, 1}

====
